---- MODULE Spec2Model ----
(***************************************************************************)
(* Model of check-and-notify.py: the tech-docs review monitor.  One run    *)
(* validates MAX_DOCS, loads the page list, and for every inventory URL    *)
(* fetches the document list, selects the overdue documents, renders the   *)
(* Slack message from the template and posts it to the webhook.            *)
(*                                                                         *)
(* JSON values are tagged records: [t |-> "none"], [t |-> "int", n |-> i], *)
(* [t |-> "str", s |-> ...], [t |-> "list", v |-> <<...>>], and            *)
(* [t |-> "dict", keys, title, url, reviewAgain].  Strings that the        *)
(* program parses (dates, MAX_DOCS) are sequences of one-character strings.*)
(***************************************************************************)
EXTENDS Integers, Sequences, FiniteSets, TLC

VARIABLES
  pc,                 \* where the run is
  max_docs,           \* MAX_DOCS as read from the environment (line 17)
  slack_webhook_url,  \* SLACK_WEBHOOK_URL (line 25)
  now,                \* the clock, datetime.now()
  page_list,          \* main: the parsed page list (line 134)
  idx,                \* main: position of the loop at line 136
  pages_url,          \* main: the inventory URL of this iteration
  doc_list,           \* main: what get_doc_list returned (line 137)
  overdue_docs,       \* main: what get_out_of_date_docs returned (line 138)
  template,           \* what the template file held when it was read
  slack_message,      \* main: what build_slack_message returned (line 141)
  gets,               \* the URLs of the GET requests made, in order
  posts,              \* the loop positions for which a POST was made
  sent,               \* main: what slack_notify returned (line 142)
  reads,              \* the number of files opened
  exit_status         \* the exit status of the process, Running until then

vars == <<pc, max_docs, slack_webhook_url, now, page_list, idx, pages_url,
          doc_list, overdue_docs, template, slack_message, gets, posts,
          sent, reads, exit_status>>

\* ---------------------------------------------------------------- bounds
MaxLen == 3
MaxMainLen == 2
MaxPages == 2
MaxBlocks == 4

\* ---------------------------------------------------------------- values
JNone == [t |-> "none"]
JStr(s) == [t |-> "str", s |-> s]
JInt(n) == [t |-> "int", n |-> n]
JList(v) == [t |-> "list", v |-> v]
\* a JSON object: its keys in order, and the three fields the program reads
\* (JNone for a key that is not there, which is what dict.get returns)
JDict(keys, title, url, reviewAgain) ==
  [t |-> "dict", keys |-> keys, title |-> title, url |-> url,
   reviewAgain |-> reviewAgain]

\* Python truthiness of a JSON value
Truthy(v) ==
  CASE v.t = "none" -> FALSE
    [] v.t = "int"  -> v.n # 0
    [] v.t = "str"  -> Len(v.s) > 0
    [] v.t = "list" -> v.v # <<>>
    [] v.t = "dict" -> v.keys # <<>>

\* ---------------------------------------------------------------- int()
Digits == <<"0", "1", "2", "3", "4", "5", "6", "7", "8", "9">>
IsDigit(c) == \E i \in 1..10 : Digits[i] = c
DigitVal(c) == (CHOOSE i \in 1..10 : Digits[i] = c) - 1

RECURSIVE DigitsVal(_)
DigitsVal(s) ==
  IF s = <<>> THEN 0
  ELSE 10 * DigitsVal(SubSeq(s, 1, Len(s) - 1)) + DigitVal(s[Len(s)])

AllDigits(s) == Len(s) > 0 /\ \A i \in 1..Len(s) : IsDigit(s[i])

\* int(max_docs) at lines 19, 84, 96: an int is itself, a string is an
\* optionally signed run of decimal digits, anything else raises
CanInt(v) ==
  \/ v.t = "int"
  \/ /\ v.t = "str"
     /\ Len(v.s) > 0
     /\ IF v.s[1] \in {"-", "+"} THEN AllDigits(Tail(v.s)) ELSE AllDigits(v.s)

IntOf(v) ==
  IF v.t = "int" THEN v.n
  ELSE IF v.s[1] = "-" THEN 0 - DigitsVal(Tail(v.s))
  ELSE IF v.s[1] = "+" THEN DigitsVal(Tail(v.s))
  ELSE DigitsVal(v.s)

\* ---------------------------------------------------------------- dates
IsLeap(y) == (y % 4 = 0 /\ y % 100 # 0) \/ y % 400 = 0

DaysInMonth(y, m) ==
  IF m = 2 THEN (IF IsLeap(y) THEN 29 ELSE 28)
  ELSE IF m \in {4, 6, 9, 11} THEN 30 ELSE 31

RECURSIVE DaysBeforeMonth(_, _)
DaysBeforeMonth(y, m) ==
  IF m = 1 THEN 0 ELSE DaysBeforeMonth(y, m - 1) + DaysInMonth(y, m - 1)

\* proleptic Gregorian ordinal of a date (date.toordinal)
ToOrdinal(y, m, d) ==
  365 * (y - 1) + ((y - 1) \div 4) - ((y - 1) \div 100) + ((y - 1) \div 400)
    + DaysBeforeMonth(y, m) + d

\* datetime.strptime(s, '%Y-%m-%d'): four digits, '-', a month of one or two
\* digits in 1..12, '-', a day of one or two digits in 1..31, nothing left
\* over, and the date must exist.  A value that is not a string raises too.
DashAt(s) == {i \in 1..Len(s) : s[i] = "-"}

DateFields(s) ==
  LET j == CHOOSE i \in DashAt(s) : i # 5
  IN  [y |-> DigitsVal(SubSeq(s, 1, 4)),
       m |-> DigitsVal(SubSeq(s, 6, j - 1)),
       d |-> DigitsVal(SubSeq(s, j + 1, Len(s)))]

StrptimeOk(v) ==
  /\ v.t = "str"
  /\ Len(v.s) \in 8..10
  /\ 5 \in DashAt(v.s)
  /\ Cardinality(DashAt(v.s)) = 2
  /\ LET j == CHOOSE i \in DashAt(v.s) : i # 5
     IN  /\ j \in {7, 8}
         /\ Len(v.s) - j \in {1, 2}
         /\ AllDigits(SubSeq(v.s, 1, 4))
         /\ AllDigits(SubSeq(v.s, 6, j - 1))
         /\ AllDigits(SubSeq(v.s, j + 1, Len(v.s)))
  /\ LET f == DateFields(v.s)
     IN  /\ f.y >= 1
         /\ f.m \in 1..12
         /\ f.d \in 1..DaysInMonth(f.y, f.m)

Strptime(v) == LET f == DateFields(v.s) IN ToOrdinal(f.y, f.m, f.d)

\* (datetime.now() - review_again_date).days: timedelta normalises to a
\* floor of whole days; the clock is [y, m, d, h], the date is at midnight
NowHours(n) == ToOrdinal(n.y, n.m, n.d) * 24 + n.h

DaysOverdue(n, ord) == (NowHours(n) - ord * 24) \div 24

\* ------------------------------------------------- get_out_of_date_docs
\* what "for doc in doc_list" yields: the elements of a list, the keys of an
\* object, the characters of a string; a number or null is not iterable
Iterable(dl) == dl.t \in {"list", "dict", "str"}

Items(dl) ==
  CASE dl.t = "list" -> dl.v
    [] dl.t = "dict" -> [i \in 1..Len(dl.keys) |-> JStr(dl.keys[i])]
    [] dl.t = "str"  -> [i \in 1..Len(dl.s) |-> JStr("c")]
    [] OTHER -> <<>>

\* doc.get(...) at lines 66-68 exists on objects only: the loop raises
\* AttributeError on the first element that is not one (TypeError when the
\* payload cannot be iterated at all); nothing in the function catches it
SelectorRaises(dl) ==
  \/ ~Iterable(dl)
  \/ \E i \in 1..Len(Items(dl)) : Items(dl)[i].t # "dict"

\* lines 69-73: the record is appended when reviewAgain and url are truthy,
\* the date parses, and the whole-day difference is positive
IsOverdueOrDueToday(days) == days >= 0

IsOverdue(days) == days > 0

QualifiesWithoutUrlCheck(doc, n) ==
  /\ Truthy(doc.reviewAgain)
  /\ StrptimeOk(doc.reviewAgain)
  /\ IsOverdue(DaysOverdue(n, Strptime(doc.reviewAgain)))

Qualifies(doc, n) ==
  /\ Truthy(doc.reviewAgain)
  /\ Truthy(doc.url)
  /\ StrptimeOk(doc.reviewAgain)
  /\ IsOverdue(DaysOverdue(n, Strptime(doc.reviewAgain)))

\* lines 74-76
OverdueEntry(doc, n) ==
  [title |-> doc.title, url |-> doc.url,
   days_overdue |-> DaysOverdue(n, Strptime(doc.reviewAgain))]

\* lines 64-80: the loop, in input order
RECURSIVE Collect(_, _)
Collect(docs, n) ==
  IF docs = <<>> THEN <<>>
  ELSE LET rest == Collect(SubSeq(docs, 1, Len(docs) - 1), n)
           doc  == docs[Len(docs)]
       IN  IF Qualifies(doc, n) THEN Append(rest, OverdueEntry(doc, n))
           ELSE rest

\* line 82: list.sort(key=days_overdue, reverse=True) is stable: entries with
\* equal keys keep their order.  Insert puts e behind every entry whose key
\* is at least its own.
InsertAsc(e, sorted) ==
  LET p == Cardinality({i \in 1..Len(sorted) :
                          sorted[i].days_overdue <= e.days_overdue})
  IN  SubSeq(sorted, 1, p) \o <<e>> \o SubSeq(sorted, p + 1, Len(sorted))

InsertDesc(e, sorted) ==
  LET p == Cardinality({i \in 1..Len(sorted) :
                          sorted[i].days_overdue >= e.days_overdue})
  IN  SubSeq(sorted, 1, p) \o <<e>> \o SubSeq(sorted, p + 1, Len(sorted))

RECURSIVE SortDesc(_)
SortDesc(s) ==
  IF s = <<>> THEN <<>>
  ELSE InsertDesc(s[Len(s)], SortDesc(SubSeq(s, 1, Len(s) - 1)))

\* lines 83-85: out_of_date_docs[: N if N > 0 else len(out_of_date_docs)]
SliceEndZeroIsALimit(n, len) == IF n >= 0 THEN n ELSE len

SliceEnd(n, len) == IF n > 0 THEN n ELSE len

Truncate(s, n) ==
  LET stop == SliceEnd(n, Len(s))
  IN  SubSeq(s, 1, IF stop < Len(s) THEN stop ELSE Len(s))

get_out_of_date_docs(dl, n, maxd) ==
  Truncate(SortDesc(Collect(Items(dl), n)), IntOf(maxd))

\* ---------------------------------------------------------------- get_json
\* what opening and parsing a file can do: "missing" (FileNotFoundError) and
\* "invalid" (JSONDecodeError) are caught at line 57 and give []; any other
\* error of open() or json.load() ("unreadable": a permission error, a
\* directory, bytes that are not UTF-8) is not caught and leaves get_json
JsonFile(v) == [kind |-> "json", v |-> v]
MissingFile == [kind |-> "missing"]
InvalidFile == [kind |-> "invalid"]
UnreadableFile == [kind |-> "unreadable"]

GetJsonRaises(f) == f.kind = "unreadable"

get_json(f) == IF f.kind = "json" THEN f.v ELSE JList(<<>>)

\* ------------------------------------------------------------ get_doc_list
\* the GET either raises (caught at line 32) or answers with a status and a
\* body that parses as JSON or does not
TransportError == [kind |-> "error"]
HttpResponse(status, body) == [kind |-> "http", status |-> status, body |-> body]
InvalidBody == [kind |-> "invalid"]
JsonBody(v) == [kind |-> "json", v |-> v]

get_doc_list(r) ==
  IF r.kind = "error" THEN JNone
  ELSE IF r.status = 200
       THEN IF r.body.kind = "json"
            THEN (IF Truthy(r.body.v) THEN r.body.v ELSE JNone)
            ELSE JNone
       ELSE JNone

\* ----------------------------------------------------- build_slack_message
\* an inventory URL, as urlparse splits it
Url(scheme, netloc, path) == [scheme |-> scheme, netloc |-> netloc, path |-> path]

\* line 101
BaseUrl(u) == u.scheme \o "://" \o u.netloc \o "/"

Plural(n) == IF n # 1 THEN "s" ELSE ""

\* how an f-string renders a field of an entry
Fmt(v) == IF v.t = "none" THEN "None" ELSE v.s

\* line 95
HeaderText(overdue) ==
  ":rocco-docco-quokka: Hello. :paw_prints: This is Rocco, your friendly docco quokka. I've found "
    \o ToString(Len(overdue)) \o " page" \o Plural(Len(overdue))
    \o " overdue for review."

\* lines 96-97
FullListHeading == "Here is the full list:"
TopHeading(n) == "Here are the top " \o ToString(n) \o " oldest:"

ListHeadingText(overdue, maxd) ==
  LET max_docs_int == IntOf(maxd)
  IN  IF max_docs_int = 0 \/ Len(overdue) <= max_docs_int
      THEN FullListHeading
      ELSE TopHeading(max_docs_int)

\* line 102: one bulleted line for an entry; the bullet glyph of the source
\* is written as an asterisk
Bullet == "* "

ListLine(doc, u) ==
  Bullet \o "<" \o BaseUrl(u) \o Fmt(doc.url) \o "|" \o Fmt(doc.title) \o "> ("
    \o ToString(doc.days_overdue) \o " day" \o Plural(doc.days_overdue)
    \o " ago)\n"

\* lines 98-102
RECURSIVE ListText(_, _)
ListText(overdue, u) ==
  IF overdue = <<>> THEN ""
  ELSE ListText(SubSeq(overdue, 1, Len(overdue) - 1), u)
         \o ListLine(overdue[Len(overdue)], u)

\* the template: an object whose 'blocks' is a list of blocks; a block holds
\* a text object (a "dict"), or has none, or holds a bare string
TextObject(text) == [t |-> "dict", type |-> "mrkdwn", text |-> text]
Block(type, text) == [type |-> type, text |-> text]
Template(blocks) == [t |-> "dict", keys |-> <<"blocks">>, blocks |-> blocks]

HasBlocks(tmpl) ==
  /\ tmpl.t = "dict"
  /\ \E i \in 1..Len(tmpl.keys) : tmpl.keys[i] = "blocks"

\* block['text']['text'] = ... works when block['text'] is an object
Settable(block) == block.text.t = "dict"

\* blocks[-2], as a position counted from 1
ListBodyIndexLastBlock(len) == len

ListBodyIndex(len) == len - 1

\* lines 104-106 raise (and line 107 catches) unless blocks[0], blocks[1]
\* and blocks[-2] exist and can take a text
InjectOk(tmpl) ==
  /\ HasBlocks(tmpl)
  /\ Len(tmpl.blocks) >= 2
  /\ Settable(tmpl.blocks[1])
  /\ Settable(tmpl.blocks[2])
  /\ Settable(tmpl.blocks[ListBodyIndex(Len(tmpl.blocks))])

SetText(blocks, i, text) == [blocks EXCEPT ![i].text.text = text]

\* lines 104-106, in that order
Inject(tmpl, header_text, list_heading_text, list_text) ==
  LET b0 == SetText(tmpl.blocks, 1, header_text)
      b1 == SetText(b0, 2, list_heading_text)
      b2 == SetText(b1, ListBodyIndex(Len(b1)), list_text)
  IN  [tmpl EXCEPT !.blocks = b2]

\* lines 94-114, for a template file that get_json could read
build_slack_message(file, overdue, u, maxd) ==
  LET slack_message_template == get_json(file)
  IN  IF Truthy(slack_message_template)
      THEN IF InjectOk(slack_message_template)
           THEN Inject(slack_message_template, HeaderText(overdue),
                       ListHeadingText(overdue, maxd), ListText(overdue, u))
           ELSE JNone
      ELSE JNone

\* ------------------------------------------------------------ slack_notify
\* lines 118-130: True for a 200, False for another status or an exception
slack_notify(r) == r.kind = "http" /\ r.status = 200

\* ---------------------------------------------------------------- main
\* line 135
HasPages(pl) ==
  /\ pl.t = "dict"
  /\ \E i \in 1..Len(pl.keys) : pl.keys[i] = "pages"

\* lines 138 and 140: go on to the notification when there are overdue
\* documents and a webhook is configured
NotifyWantedWithoutWebhook(overdue, webhook) == overdue # <<>>

NotifyWanted(overdue, webhook) == overdue # <<>> /\ webhook # ""

\* ---------------------------------------------------------------- inputs
\* the clock of the run: 1 March 2024, at midnight and in the afternoon
Nows == {[y |-> 2024, m |-> 3, d |-> 1, h |-> 0],
         [y |-> 2024, m |-> 3, d |-> 1, h |-> 13]}

Date0228 == <<"2", "0", "2", "4", "-", "0", "2", "-", "2", "8">>
Date0229 == <<"2", "0", "2", "4", "-", "0", "2", "-", "2", "9">>
Date0230 == <<"2", "0", "2", "4", "-", "0", "2", "-", "3", "0">>
Date0301 == <<"2", "0", "2", "4", "-", "0", "3", "-", "0", "1">>
Date0302 == <<"2", "0", "2", "4", "-", "3", "-", "2">>

DocKeys == <<"title", "url", "reviewAgain">>
Doc(title, url, reviewAgain) ==
  JDict(DocKeys, JStr(title), JStr(url), JStr(reviewAgain))

DocTwoDays  == Doc("A", "p1", Date0228)
DocOneDay   == Doc("B", "p2", Date0229)
DocToday    == Doc("C", "p3", Date0301)
DocFuture   == Doc("D", "p4", Date0302)
DocNoUrl    == JDict(<<"title", "reviewAgain">>, JStr("E"), JNone,
                     JStr(Date0228))
DocNoReview == JDict(<<"title", "url">>, JStr("F"), JStr("p6"), JNone)
DocBadDate  == Doc("G", "p7", Date0230)
DocTwoDaysB == Doc("H", "p8", Date0228)
DocEmptyUrl == Doc("I", "", Date0229)
NotADoc     == JStr("x")

Records == {DocTwoDays, DocOneDay, DocToday, DocFuture, DocNoUrl,
            DocNoReview, DocBadDate, DocTwoDaysB, DocEmptyUrl}

SeqsUpTo(S, n) == UNION {[1..k -> S] : k \in 0..n}

\* payloads a JSON body can parse to
OtherShapes == {JInt(5), JNone, JStr("abc"),
                JDict(DocKeys, JStr("A"), JStr("p1"), JStr(Date0228)),
                JDict(<<>>, JNone, JNone, JNone)}

SelPayloads ==
  {JList(s) : s \in SeqsUpTo(Records \cup {NotADoc}, MaxLen)} \cup OtherShapes

\* MAX_DOCS: the int 10 when the variable is unset, else the string set
DefaultMaxDocs == 10
ValidMaxDocs == {JInt(DefaultMaxDocs), JStr(<<"0">>), JStr(<<"1">>),
                 JStr(<<"2">>), JStr(<<"-", "1">>)}
InvalidMaxDocs == {JStr(<<"t", "e", "n">>), JStr(<<"1", ".", "5">>),
                   JStr(<<>>)}

Running == -1

\* ------------------------------------------ specification of the selector
SelIdle ==
  /\ slack_webhook_url = ""
  /\ page_list = JNone
  /\ idx = 0
  /\ pages_url = JNone
  /\ template = [kind |-> "none"]
  /\ slack_message = JNone
  /\ gets = <<>>
  /\ posts = <<>>
  /\ sent = FALSE
  /\ reads = 0
  /\ exit_status = Running

SelInit ==
  /\ pc = "sel_call"
  /\ max_docs \in ValidMaxDocs
  /\ now \in Nows
  /\ doc_list \in SelPayloads
  /\ overdue_docs = <<>>
  /\ SelIdle

SelReturn ==
  /\ pc = "sel_call"
  /\ ~SelectorRaises(doc_list)
  /\ overdue_docs' = get_out_of_date_docs(doc_list, now, max_docs)
  /\ pc' = "sel_returned"
  /\ UNCHANGED <<max_docs, slack_webhook_url, now, page_list, idx, pages_url,
                 doc_list, template, slack_message, gets, posts, sent,
                 reads, exit_status>>

SelRaise ==
  /\ pc = "sel_call"
  /\ SelectorRaises(doc_list)
  /\ pc' = "sel_raised"
  /\ UNCHANGED <<max_docs, slack_webhook_url, now, page_list, idx, pages_url,
                 doc_list, overdue_docs, template, slack_message, gets,
                 posts, sent, reads, exit_status>>

SelNext == SelReturn \/ SelRaise

SelectorSpec == SelInit /\ [][SelNext]_vars

\* -------------------------------------------- specification of the program
\* the i-th inventory URL of a page list: all different
PageUrl(i) ==
  Url(IF i % 2 = 1 THEN "http" ELSE "https",
      "site" \o ToString(i) \o ".test", "/api/pages.json")

PageList(pages) == [t |-> "dict", keys |-> <<"pages">>, pages |-> pages]

PageListFiles ==
  {MissingFile, InvalidFile, UnreadableFile,
   JsonFile(JList(<<JStr("http://a.test/inv")>>)),
   JsonFile([t |-> "dict", keys |-> <<"sites">>, pages |-> JNone]),
   JsonFile(PageList(JNone))}
    \cup {JsonFile(PageList(JList([i \in 1..k |-> PageUrl(i)]))) :
            k \in 0..MaxPages}

MainPayloads ==
  {JList(s) : s \in SeqsUpTo({DocTwoDays, DocOneDay, DocToday, NotADoc},
                             MaxMainLen)}
    \cup OtherShapes

GetResponses ==
  {TransportError, HttpResponse(404, InvalidBody),
   HttpResponse(500, JsonBody(JList(<<DocTwoDays>>))),
   HttpResponse(200, InvalidBody)}
    \cup {HttpResponse(200, JsonBody(p)) : p \in MainPayloads}

PostResponses ==
  {TransportError, HttpResponse(200, InvalidBody),
   HttpResponse(500, InvalidBody)}

TextBlock(i) == Block("section", TextObject("template text " \o ToString(i)))
DividerBlock == Block("divider", JNone)
PlainTextBlock == Block("section", JStr("plain text"))

\* block lists of up to MaxBlocks blocks: all with a text object, or all but
\* one, which is a divider without text
BlockLists ==
  UNION {{[i \in 1..k |-> TextBlock(i)]}
           \cup {[i \in 1..k |-> IF i = j THEN DividerBlock ELSE TextBlock(i)] :
                   j \in 1..k} : k \in 0..MaxBlocks}

TemplateFiles ==
  {MissingFile, InvalidFile, UnreadableFile,
   JsonFile(JList(<<JInt(1)>>)),
   JsonFile([t |-> "dict", keys |-> <<"text">>, blocks |-> <<>>]),
   JsonFile(Template(<<TextBlock(1), PlainTextBlock, TextBlock(3),
                       TextBlock(4)>>))}
    \cup {JsonFile(Template(b)) : b \in BlockLists}

WebhookUrls == {"", "https://hooks.test/services/T0"}

NoFile == [kind |-> "none"]

Init ==
  /\ pc = "start"
  /\ max_docs \in ValidMaxDocs \cup InvalidMaxDocs
  /\ slack_webhook_url \in WebhookUrls
  /\ now \in Nows
  /\ page_list = JNone
  /\ idx = 0
  /\ pages_url = JNone
  /\ doc_list = JNone
  /\ overdue_docs = <<>>
  /\ template = NoFile
  /\ slack_message = JNone
  /\ gets = <<>>
  /\ posts = <<>>
  /\ sent = FALSE
  /\ reads = 0
  /\ exit_status = Running

\* an exception nobody catches ends the process with status 1
Crash ==
  /\ pc' = "crashed"
  /\ exit_status' = 1

\* the loop at line 136 goes on with the next URL
NextUrl ==
  /\ pc' = "loop"
  /\ idx' = idx + 1

\* lines 17-22, at import: int(max_docs) or sys.exit(1)
CheckMaxDocs ==
  /\ pc = "start"
  /\ IF CanInt(max_docs)
     THEN pc' = "main" /\ exit_status' = exit_status
     ELSE pc' = "exited" /\ exit_status' = 1
  /\ UNCHANGED <<max_docs, slack_webhook_url, now, page_list, idx, pages_url,
                 doc_list, overdue_docs, template, slack_message, gets,
                 posts, sent, reads>>

\* lines 134-136 and 144-147: load the page list and enter the loop
LoadPageList ==
  /\ pc = "main"
  /\ \E f \in PageListFiles :
       /\ reads' = reads + 1
       /\ IF GetJsonRaises(f)
          THEN Crash /\ UNCHANGED <<page_list, idx>>
          ELSE /\ page_list' = get_json(f)
               /\ IF HasPages(get_json(f))
                  THEN IF get_json(f).pages.t = "list"
                       THEN pc' = "loop" /\ idx' = 1
                                         /\ exit_status' = exit_status
                       ELSE Crash /\ idx' = idx
                  ELSE pc' = "done" /\ exit_status' = 0 /\ idx' = idx
  /\ UNCHANGED <<max_docs, slack_webhook_url, now, pages_url, doc_list,
                 overdue_docs, template, slack_message, gets, posts, sent>>

Pages == page_list.pages.v

\* lines 136-137 with get_doc_list: one GET for the URL at the loop position.
\* The locals of the previous iteration are dead and are cleared.
Fetch ==
  /\ pc = "loop"
  /\ idx <= Len(Pages)
  /\ \E r \in GetResponses :
       /\ gets' = Append(gets, Pages[idx])
       /\ pages_url' = Pages[idx]
       /\ doc_list' = get_doc_list(r)
       /\ IF Truthy(get_doc_list(r))
          THEN pc' = "fetched" /\ idx' = idx
          ELSE NextUrl
  /\ overdue_docs' = <<>>
  /\ template' = NoFile
  /\ slack_message' = JNone
  /\ sent' = FALSE
  /\ UNCHANGED <<max_docs, slack_webhook_url, now, page_list, posts, reads,
                 exit_status>>

\* the loop is exhausted: main returns and the process ends with status 0
Finish ==
  /\ pc = "loop"
  /\ idx > Len(Pages)
  /\ pc' = "done"
  /\ exit_status' = 0
  /\ UNCHANGED <<max_docs, slack_webhook_url, now, page_list, idx, pages_url,
                 doc_list, overdue_docs, template, slack_message, gets,
                 posts, sent, reads>>

\* lines 138-140 with get_out_of_date_docs
Select ==
  /\ pc = "fetched"
  /\ IF SelectorRaises(doc_list)
     THEN Crash /\ UNCHANGED <<overdue_docs, idx>>
     ELSE /\ overdue_docs' = get_out_of_date_docs(doc_list, now, max_docs)
          /\ exit_status' = exit_status
          /\ IF NotifyWanted(get_out_of_date_docs(doc_list, now, max_docs),
                             slack_webhook_url)
             THEN pc' = "selected" /\ idx' = idx
             ELSE NextUrl
  /\ UNCHANGED <<max_docs, slack_webhook_url, now, page_list, pages_url,
                 doc_list, template, slack_message, gets, posts, sent, reads>>

\* line 141 with build_slack_message, which reads the template file
Build ==
  /\ pc = "selected"
  /\ \E f \in TemplateFiles :
       /\ reads' = reads + 1
       /\ template' = f
       /\ IF GetJsonRaises(f)
          THEN Crash /\ UNCHANGED <<slack_message, idx>>
          ELSE /\ slack_message' =
                    build_slack_message(f, overdue_docs, pages_url, max_docs)
               /\ exit_status' = exit_status
               /\ IF build_slack_message(f, overdue_docs, pages_url, max_docs)
                       # JNone
                  THEN pc' = "built" /\ idx' = idx
                  ELSE NextUrl
  /\ UNCHANGED <<max_docs, slack_webhook_url, now, page_list, pages_url,
                 doc_list, overdue_docs, gets, posts, sent>>

\* lines 142-143 with slack_notify: one POST, whose outcome is only logged
Notify ==
  /\ pc = "built"
  /\ \E r \in PostResponses :
       /\ posts' = Append(posts, idx)
       /\ sent' = slack_notify(r)
  /\ NextUrl
  /\ UNCHANGED <<max_docs, slack_webhook_url, now, page_list, pages_url,
                 doc_list, overdue_docs, template, slack_message, gets,
                 reads, exit_status>>

Next ==
  \/ CheckMaxDocs
  \/ LoadPageList
  \/ Fetch
  \/ Finish
  \/ Select
  \/ Build
  \/ Notify

Spec == Init /\ [][Next]_vars

\* ------------------------------------------------ claims on the selector
\* the input is a sequence of Document Records (objects)
IsRecordList(dl) ==
  dl.t = "list" /\ \A i \in 1..Len(dl.v) : dl.v[i].t = "dict"

HasUrlAndDate(doc) == Truthy(doc.url) /\ StrptimeOk(doc.reviewAgain)

\* whole days from the review date to today's date
WholeDays(doc) ==
  ToOrdinal(now.y, now.m, now.d) - Strptime(doc.reviewAgain)

ExpectedEntry(doc) ==
  [title |-> doc.title, url |-> doc.url, days_overdue |-> WholeDays(doc)]

Included(doc) ==
  \E k \in 1..Len(overdue_docs) : overdue_docs[k] = ExpectedEntry(doc)

Mentioned(doc) ==
  \E k \in 1..Len(overdue_docs) :
    overdue_docs[k].title = doc.title /\ overdue_docs[k].url = doc.url

QualifyingIdx ==
  {i \in 1..Len(doc_list.v) :
     HasUrlAndDate(doc_list.v[i]) /\ WholeDays(doc_list.v[i]) > 0}

ConfiguredMax == IntOf(max_docs)

SelectorReturned == pc = "sel_returned" /\ IsRecordList(doc_list)

\* C1 as stated: a record with a url and a parseable date is in the output
\* if and only if its whole-day difference is positive
C1_AsStated ==
  SelectorReturned =>
    \A i \in 1..Len(doc_list.v) :
      HasUrlAndDate(doc_list.v[i]) =>
        (Included(doc_list.v[i]) <=> WholeDays(doc_list.v[i]) > 0)

\* C1 (amended): every returned entry is the title, url and whole-day
\* difference of a record with a url, a parseable date and a positive
\* difference; a record due today or later is never returned; and every
\* record with a positive difference is returned when the maximum is 0 (or
\* negative) or no more records qualify than the maximum allows
C1_OverdueIffPositiveWithinLimit ==
  SelectorReturned =>
    /\ \A k \in 1..Len(overdue_docs) :
         \E i \in QualifyingIdx : overdue_docs[k] = ExpectedEntry(doc_list.v[i])
    /\ \A i \in 1..Len(doc_list.v) :
         (HasUrlAndDate(doc_list.v[i]) /\ WholeDays(doc_list.v[i]) <= 0)
           => ~Mentioned(doc_list.v[i])
    /\ (ConfiguredMax <= 0 \/ Cardinality(QualifyingIdx) <= ConfiguredMax)
         => \A i \in QualifyingIdx : Included(doc_list.v[i])

C1_Witness ==
  /\ SelectorReturned
  /\ now.h = 13
  /\ Len(doc_list.v) = 3
  /\ doc_list.v[1] = DocToday
  /\ doc_list.v[2] = DocFuture
  /\ doc_list.v[3] = DocOneDay
  /\ overdue_docs = <<[title |-> JStr("B"), url |-> JStr("p2"),
                       days_overdue |-> 1]>>

\* C2: the returned sequence is in non-increasing order of days_overdue
C2_SortedDescending ==
  SelectorReturned =>
    \A k \in 1..(Len(overdue_docs) - 1) :
      overdue_docs[k].days_overdue >= overdue_docs[k + 1].days_overdue

C2_Witness ==
  /\ SelectorReturned
  /\ Len(doc_list.v) = 3
  /\ doc_list.v[1] = DocOneDay
  /\ doc_list.v[2] = DocTwoDays
  /\ doc_list.v[3] = DocTwoDaysB
  /\ Len(overdue_docs) = 3
  /\ overdue_docs[1].days_overdue = 2
  /\ overdue_docs[3].days_overdue = 1

\* the number of qualifying records, resp. returned entries, that are
\* exactly d days overdue
QualifyingWith(d) ==
  Cardinality({i \in QualifyingIdx : WholeDays(doc_list.v[i]) = d})

ReturnedWith(d) ==
  Cardinality({k \in 1..Len(overdue_docs) : overdue_docs[k].days_overdue = d})

QualifyingDays == {WholeDays(doc_list.v[i]) : i \in QualifyingIdx}

MinOf(a, b) == IF a < b THEN a ELSE b

\* C3: with maximum N and Q qualifying records the output has min(N, Q)
\* entries when N > 0 and Q entries when N = 0, and no omitted qualifying
\* record is more overdue than a returned entry
C3_TruncatedToMostOverdue ==
  SelectorReturned =>
    /\ ConfiguredMax > 0 =>
         Len(overdue_docs) = MinOf(ConfiguredMax, Cardinality(QualifyingIdx))
    /\ ConfiguredMax = 0 => Len(overdue_docs) = Cardinality(QualifyingIdx)
    /\ \A d \in QualifyingDays :
         /\ ReturnedWith(d) <= QualifyingWith(d)
         /\ ReturnedWith(d) < QualifyingWith(d) =>
              \A k \in 1..Len(overdue_docs) : overdue_docs[k].days_overdue >= d

C3_Witness ==
  /\ SelectorReturned
  /\ ConfiguredMax = 2
  /\ Cardinality(QualifyingIdx) = 3
  /\ doc_list.v[1] = DocOneDay
  /\ Len(overdue_docs) = 2
  /\ overdue_docs[2].days_overdue = 2

\* a record without url, without reviewAgain, or with an unparseable date
BadRecord(doc) ==
  \/ ~Truthy(doc.url)
  \/ ~Truthy(doc.reviewAgain)
  \/ ~StrptimeOk(doc.reviewAgain)

GoodRecord(doc) == ~BadRecord(doc)

\* C4: bad records are not in the output, and the output is the output for
\* the input without them
C4_BadRecordsSkipped ==
  SelectorReturned =>
    /\ \A i \in 1..Len(doc_list.v) :
         BadRecord(doc_list.v[i]) =>
           \A k \in 1..Len(overdue_docs) :
             overdue_docs[k].title # doc_list.v[i].title
    /\ overdue_docs =
         get_out_of_date_docs(JList(SelectSeq(doc_list.v, GoodRecord)),
                              now, max_docs)

C4_Witness ==
  /\ SelectorReturned
  /\ Len(doc_list.v) = 3
  /\ doc_list.v[1] = DocBadDate
  /\ doc_list.v[2] = DocOneDay
  /\ doc_list.v[3] = DocNoUrl
  /\ Len(overdue_docs) = 1

\* C5 as stated, for the shapes it names: on a non-empty payload that is an
\* array (of anything) or an object, the selector raises no exception
C5_AnyShapeTolerated ==
  (Truthy(doc_list) /\ doc_list.t \in {"list", "dict"}) => pc # "sel_raised"

\* ------------------------------------------------- claims on the program
PagesLoaded == HasPages(page_list) /\ page_list.pages.t = "list"

Terminated == pc \in {"done", "exited", "crashed"}

\* C6 as stated: when the page list is a mapping with a pages list, the run
\* ends having made exactly one GET for every URL of the list, in list order
C6_EveryUrlFetchedOnce ==
  (Terminated /\ PagesLoaded) => gets = Pages

\* the loop position the locals belong to: the one being processed, or the
\* one just completed when the loop is back at its head
ThisUrl == IF pc \in {"loop", "done"} THEN idx - 1 ELSE idx

UrlCompleted == pc \in {"loop", "done"} /\ idx >= 2

Posted(i) == \E k \in 1..Len(posts) : posts[k] = i

DueForPost ==
  /\ Truthy(doc_list)
  /\ overdue_docs # <<>>
  /\ slack_webhook_url # ""
  /\ slack_message # JNone

\* C7: no loop position has two POSTs; a POST was made for a URL only if the
\* fetch returned a payload, the overdue entries are non-empty, the webhook
\* is configured and the message was rendered; once a URL for which all
\* four hold is completed, its POST has been made; no overdue entries, no POST
C7_PostOnceAndOnlyWhenDue ==
  /\ \A j, k \in 1..Len(posts) : posts[j] = posts[k] => j = k
  /\ \A k \in 1..Len(posts) : posts[k] \in 1..ThisUrl
  /\ Posted(ThisUrl) => DueForPost
  /\ (UrlCompleted /\ DueForPost) => Posted(ThisUrl)
  /\ (pc # "start" /\ pc # "main" /\ overdue_docs = <<>>) => ~Posted(ThisUrl)

C7_Witness ==
  /\ pc = "loop"
  /\ idx = 3
  /\ posts = <<1, 2>>
  /\ ~sent
  /\ DueForPost

\* C8 as stated: the heading of a rendered message is the full-list phrase
\* when the overdue records of the URL fit in the maximum N (or N = 0), and
\* the top-N phrase when N > 0 and more than N records are overdue
C8_HeadingTellsWhetherListIsFull ==
  (pc = "built" /\ Len(slack_message.blocks) >= 4 /\ ConfiguredMax >= 0) =>
    slack_message.blocks[2].text.text =
      IF ConfiguredMax = 0 \/ Cardinality(QualifyingIdx) <= ConfiguredMax
      THEN FullListHeading
      ELSE TopHeading(ConfiguredMax)

\* a template of the expected shape: an object with a list of blocks, each
\* with a text object
WellShaped(file) ==
  /\ file.kind = "json"
  /\ HasBlocks(file.v)
  /\ \A i \in 1..Len(file.v.blocks) : Settable(file.v.blocks[i])

\* the message for a template with at least minBlocks blocks: header in the
\* first block, heading in the second, list body in the second-to-last,
\* everything else as in the template
InjectedInto(minBlocks) ==
  (WellShaped(template) /\ Len(template.v.blocks) >= minBlocks) =>
    /\ slack_message # JNone
    /\ slack_message.t = template.v.t
    /\ slack_message.keys = template.v.keys
    /\ Len(slack_message.blocks) = Len(template.v.blocks)
    /\ slack_message.blocks[1].text.text = HeaderText(overdue_docs)
    /\ slack_message.blocks[2].text.text =
         ListHeadingText(overdue_docs, max_docs)
    /\ slack_message.blocks[Len(template.v.blocks) - 1].text.text =
         ListText(overdue_docs, pages_url)
    /\ \A i \in 1..Len(template.v.blocks) :
         /\ slack_message.blocks[i].type = template.v.blocks[i].type
         /\ slack_message.blocks[i].text.type = template.v.blocks[i].text.type
         /\ i \notin {1, 2, Len(template.v.blocks) - 1} =>
              slack_message.blocks[i] = template.v.blocks[i]

\* C9 as stated: for every template with at least 2 well-shaped blocks
C9_AsStated == InjectedInto(2)

\* C9 (amended): for every template with at least 4 well-shaped blocks the
\* build succeeds, the first block holds the header, the second the list
\* heading, the second-to-last the list body, and nothing else is changed
C9_InjectionLeavesRestUntouched == InjectedInto(4)

C9_Witness ==
  /\ pc = "built"
  /\ WellShaped(template)
  /\ Len(template.v.blocks) = 4
  /\ Len(overdue_docs) = 2
  /\ slack_message.blocks[4] = TextBlock(4)
  /\ slack_message.blocks[3].text.text # "template text 3"

\* C10 as stated: the exit status is 1 exactly when MAX_DOCS is not an
\* integer, and then nothing was read, fetched or posted; it is 0 otherwise
C10_ExitStatus ==
  exit_status # Running =>
    /\ exit_status \in {0, 1}
    /\ exit_status = 1 <=> ~CanInt(max_docs)
    /\ ~CanInt(max_docs) => (reads = 0 /\ gets = <<>> /\ posts = <<>>)

====
